---- MODULE Spec2Model ----
(***************************************************************************)
(* Model of goweb's request pipeline (server.go): the Router's route       *)
(* table, the composition Timeout -> Recovery -> Metrics -> Compression -> *)
(* ServeMux built by handler(cfg), and one request travelling through it.  *)
(*                                                                         *)
(* Two goroutines serve a request: the server goroutine, which runs        *)
(* http.TimeoutHandler's ServeHTTP and waits in its select, and the        *)
(* goroutine it spawns, which runs the rest of the chain against a         *)
(* buffering timeoutWriter.  The library pieces the source calls           *)
(* (http.TimeoutHandler, gzip.Writer, http.Error, http.ServeMux) are       *)
(* modelled by what they do to the state the source hands them.            *)
(***************************************************************************)
EXTENDS Integers, Sequences, FiniteSets, TLC

\* ---------------------------------------------------------------- bounds
MaxRegs == 2        \* Router.GET calls made before Start
MaxOps  == 2        \* sink operations an application handler performs
MaxReports == 2     \* ErrorHandler.HandleError calls an application handler makes

\* ------------------------------------------------------------- constants
None == "none"

StatusOK                  == 200
StatusMovedPermanently    == 301
StatusNotFound            == 404
StatusInternalServerError == 500
StatusServiceUnavailable  == 503

\* ControllerFunc values an application registers
Controllers == {"h1", "h2"}

\* A path is the sequence of its pieces, so that prefixes can be taken.
CssPattern == <<"/", "css", "/">>
RegPaths   == { <<"/", "a">>, <<"/", "a", "/">>, CssPattern }
ReqPaths   == { <<"/", "a">>, <<"/", "a", "/">>, <<"/", "a", "/", "b">>,
                <<"/", "b">>, <<"/", "css", "/", "x">> }
ServePaths == { <<"/", "a">>, <<"/", "b">> }

Methods         == {"GET", "POST"}
UserAgents      == { <<>>, <<"curl">> }
AcceptEncodings == {"", "gzip, deflate"}
RemoteAddr      == "10.0.0.1:4242"

\* Body bytes.  "a" and "b" are bytes an application handler writes; the fixed
\* texts the library writes are one token each.
AppBytes      == {"a", "b"}
ErrorText     == <<"Internal Server Error\n">>
NotFoundText  == <<"404 page not found\n">>
RedirectText  == <<"Moved Permanently">>
TimedOutText  == <<"timed out">>
GzHeader      == "gz-header"
GzTrailer     == "gz-trailer"

HeaderNames == {"Content-Encoding", "Content-Type", "X-Content-Type-Options", "Location"}
NoHeaders   == [n \in HeaderNames |-> None]

NoPanic     == [type |-> "none", val |-> ""]
\* "nilError" is an error value whose Error method panics when called: a nil
\* pointer of a type that implements error with a value receiver.
PanicValues == { [type |-> "string", val |-> "boom"],
                 [type |-> "error",  val |-> "EOF"],
                 [type |-> "nilError", val |-> ""],
                 [type |-> "other",  val |-> "42"] }

\* the runtime's panic for a value method called through a nil pointer
RuntimePanic == [type |-> "error", val |-> "value method called using nil pointer"]

VARIABLES
    phase,      \* "setup" (before Start), "serving", "crashed" (Start panicked)
    routerMap,  \* Router.routerMap
    regs,       \* the Router.GET calls made before Start, in order
    lateRegs,   \* the Router.GET calls made after Start, in order
    mux,        \* the ServeMux built by routes(cfg)
    req,        \* the request being served
    toState,    \* server goroutine in TimeoutHandler: idle, waiting, returned, panicked
    timedOut,   \* the select took the deadline case
    ctxDone,    \* the 4s context deadline has expired
    doneClosed, \* close(done) has run in the spawned goroutine
    panicSent,  \* a panic value was sent on panicChan
    tw,         \* the timeoutWriter handed to the inner chain
    client,     \* the real http.ResponseWriter: what the client receives
    pc,         \* spawned goroutine: idle, enter, handler, unwind, end
    stack,      \* wrappers currently active in the spawned goroutine
    panicking,  \* the panic value being unwound, or NoPanic
    raised,     \* the value the controller panicked with, or NoPanic
    target,     \* what the ServeMux dispatched to
    hsink,      \* the sink the Compression wrapper handed downstream: raw or gz
    gz,         \* the gzip.Writer installed by GZipHandler
    ops,        \* sink operations the application handler has performed
    hw,         \* the bytes the dispatched handler has written, in order
    hhdr,       \* the headers the application handler has set
    logs,       \* records emitted through log.Printf
    reports,    \* the HandleError calls the application handler has made
    trace       \* wrapper entries ("+X") and exits ("-X"), in order

vars == <<phase, routerMap, regs, lateRegs, mux, req, toState, timedOut, ctxDone, doneClosed,
          panicSent, tw, client, pc, stack, panicking, raised, target, hsink, gz, ops,
          hw, hhdr, logs, reports, trace>>

routerVars == <<routerMap, regs, lateRegs>>
reqVars    == <<req, toState, timedOut, ctxDone, doneClosed, panicSent, tw, client, pc, stack,
                panicking, raised, target, hsink, gz, ops, hw, hhdr, logs, reports, trace>>

\* --------------------------------------------------------------- helpers
Last(s)    == s[Len(s)]
Front(s)   == SubSeq(s, 1, Len(s) - 1)
IsPrefix(p, s) == Len(p) <= Len(s) /\ SubSeq(s, 1, Len(p)) = p
EndsInSlash(p) == Len(p) > 0 /\ Last(p) = "/"

\* -------------------------------------------------------- Router, routes
NewRouter == [p \in RegPaths |-> None]

\* mutant: a registration of a path already present is dropped
RouterSetKeepFirst(rm, path, controller) ==
    IF rm[path] # None THEN rm ELSE [rm EXCEPT ![path] = controller]

\* r.routerMap[path] = controller
RouterSet(rm, path, controller) == [rm EXCEPT ![path] = controller]

\* mux.Handle("/css/", ...) runs first; mux.HandleFunc of the same pattern then
\* panics ("multiple registrations"), and the panic leaves Start.
routesPanics(rm) == rm[CssPattern] # None

routes(rm) == [p \in RegPaths |-> IF p = CssPattern THEN "FileServer" ELSE rm[p]]

NoMux == [p \in RegPaths |-> None]

\* ServeMux lookup of a clean path: the exact pattern; else a redirect when
\* path + "/" is a pattern; else the longest pattern ending in "/" that is a
\* prefix of the path; else the not-found handler.
SubtreePatterns(m, path) ==
    {p \in RegPaths : m[p] # None /\ EndsInSlash(p) /\ IsPrefix(p, path)}

MuxTarget(m, path) ==
    IF path \in RegPaths /\ m[path] # None THEN m[path]
    ELSE IF Append(path, "/") \in RegPaths /\ m[Append(path, "/")] # None THEN "Redirect"
    ELSE IF SubtreePatterns(m, path) # {}
         THEN m[CHOOSE p \in SubtreePatterns(m, path) :
                    \A q \in SubtreePatterns(m, path) : Len(q) <= Len(p)]
    ELSE "NotFound"

\* ------------------------------------------------------- the wrapper chain
\* mutant: Compression constructed before Metrics
handlersSwapped == <<"Timeout", "Recovery", "Compression", "Metrics">>

handlers == <<"Timeout", "Recovery", "Metrics", "Compression">>

\* alice.New(handlers...).Then(routes(cfg)): the first constructor is outermost
Chain == handlers \o <<"Router">>

\* The wrapper the spawned goroutine enters next (the Timeout wrapper runs in
\* the server goroutine and is not on the spawned goroutine's stack).
NextWrapper == IF Len(stack) + 2 <= Len(Chain) THEN Chain[Len(stack) + 2] ELSE None

Top == IF stack = <<>> THEN None ELSE Last(stack)

\* ------------------------------------------------------ the request
Requests(paths) ==
    [method : Methods, path : paths, acceptEncoding : AcceptEncodings,
     userAgent : UserAgents, remoteAddr : {RemoteAddr}]

NoRequest == [method |-> "", path |-> <<>>, acceptEncoding |-> "",
              userAgent |-> <<>>, remoteAddr |-> ""]

\* r.RequestURI of a request without a query string
RequestURI(r) == r.path

\* mutant: the Accept-Encoding test is skipped
AcceptsGzipAlways(r) == TRUE

\* strings.Contains(r.Header.Get("Accept-Encoding"), "gzip")
AcceptsGzip(r) == r.acceptEncoding \in {"gzip, deflate"}

\* ------------------------------------------------------ timeoutWriter
NewTimeoutWriter == [h |-> NoHeaders, wroteHeader |-> FALSE, code |-> 0,
                     wbuf |-> <<>>, err |-> FALSE]

\* timeoutWriter.Write: refused once the deadline case set tw.err; the first
\* write sends an implicit status 200
twWrite(w, bs) ==
    IF w.err THEN w
    ELSE [w EXCEPT !.wroteHeader = TRUE,
                   !.code = IF w.wroteHeader THEN w.code ELSE StatusOK,
                   !.wbuf = w.wbuf \o bs]

\* timeoutWriter.WriteHeader: ignored after the deadline and when a status was
\* already written (superfluous call)
twWriteHeader(w, c) ==
    IF w.err \/ w.wroteHeader THEN w
    ELSE [w EXCEPT !.wroteHeader = TRUE, !.code = c]

\* w.Header().Set(name, value): the header map is written whatever tw.err is
twSetHeader(w, name, value) == [w EXCEPT !.h[name] = value]

\* http.Error(w, text, code)
httpError(w, text, c) ==
    LET w1 == twSetHeader(w, "Content-Type", "text/plain; charset=utf-8")
        w2 == twSetHeader(w1, "X-Content-Type-Options", "nosniff")
    IN  twWrite(twWriteHeader(w2, c), text)

\* ------------------------------------------------------ gzip.Writer
\* The compressor turns each byte into its compressed form, frames the stream
\* with a header and a trailer, and may hold compressed bytes back until Close.
Compress(b) ==
    CASE b = "a" -> "z(a)"
      [] b = "b" -> "z(b)"
      [] b = NotFoundText[1] -> "z(404)"
      [] b = RedirectText[1] -> "z(moved)"
      [] OTHER -> "z(other)"

Expand(z) ==
    CASE z = "z(a)" -> "a"
      [] z = "z(b)" -> "b"
      [] z = "z(404)" -> NotFoundText[1]
      [] z = "z(moved)" -> RedirectText[1]
      [] OTHER -> "?"

CompressedBytes == {"z(a)", "z(b)", "z(404)", "z(moved)", "z(other)"}

CompressAll(bs) == [i \in 1..Len(bs) |-> Compress(bs[i])]

\* What a gzip reader makes of a byte stream: the data of one well-formed
\* member, or failure on anything else (raw bytes, a missing trailer,
\* bytes after the trailer).
Gunzip(s) ==
    IF /\ Len(s) >= 2
       /\ s[1] = GzHeader
       /\ s[Len(s)] = GzTrailer
       /\ \A i \in 2..(Len(s) - 1) : s[i] \in CompressedBytes
    THEN [ok |-> TRUE,  data |-> [i \in 1..(Len(s) - 2) |-> Expand(s[i + 1])]]
    ELSE [ok |-> FALSE, data |-> <<>>]

NoGzip == [active |-> FALSE, wroteHeader |-> FALSE, pending |-> <<>>, closed |-> FALSE,
           closes |-> 0]

\* gzip.NewWriter(w)
NewGzipWriter == [NoGzip EXCEPT !.active = TRUE]

\* mutant: Write goes to the embedded ResponseWriter
gzipResponseWriterWriteRaw == "ResponseWriter"

\* gzipResponseWriter.Write: which embedded field receives the bytes
gzipResponseWriterWrite == "Writer"

\* mutant: the header is not set
gzipSetEncodingNone(w) == w

\* w.Header().Set("Content-Encoding", "gzip")
gzipSetEncoding(w) == twSetHeader(w, "Content-Encoding", "gzip")

\* gz.Write(bs) on sink w: the header goes out with the first write; the
\* compressed bytes go out now (flush) or stay in the compressor
gzWriteOut(g, bs, flush) ==
    (IF g.wroteHeader THEN <<>> ELSE <<GzHeader>>)
        \o (IF flush THEN g.pending \o CompressAll(bs) ELSE <<>>)

gzWriteState(g, bs, flush) ==
    [g EXCEPT !.wroteHeader = TRUE,
              !.pending = IF flush THEN <<>> ELSE g.pending \o CompressAll(bs)]

\* gz.Close(): the header if no write sent it, whatever the compressor holds,
\* then the trailer
gzCloseOut(g) ==
    (IF g.wroteHeader THEN <<>> ELSE <<GzHeader>>) \o g.pending \o <<GzTrailer>>

gzCloseState(g) ==
    [g EXCEPT !.wroteHeader = TRUE, !.pending = <<>>, !.closed = TRUE,
              !.closes = g.closes + 1]

\* mutant: gz.Close() is called after h.ServeHTTP instead of deferred
gzipCloseOnReturnOnly(v) == v = NoPanic

\* defer gz.Close(): runs when GZipHandler's function returns and when a
\* panic (v) unwinds through it
gzipCloseRuns(v) == TRUE

\* ------------------------------------------------------ the real ResponseWriter
NewClient == [wroteHeader |-> FALSE, status |-> 0, header |-> NoHeaders, body |-> <<>>]

\* select case <-done: copy the buffered headers, status and body to the client
DoneReply(c, w) ==
    [wroteHeader |-> TRUE,
     status |-> IF w.wroteHeader THEN w.code ELSE StatusOK,
     header |-> [n \in HeaderNames |-> IF w.h[n] # None THEN w.h[n] ELSE c.header[n]],
     body   |-> w.wbuf]

\* mutant: the buffered handler output is sent ahead of the fixed body
DeadlineReplyLeaky(c, w) ==
    [c EXCEPT !.wroteHeader = TRUE, !.status = StatusServiceUnavailable,
              !.body = w.wbuf \o TimedOutText]

\* select case <-ctx.Done(): 503 and the fixed body; the buffer is dropped
DeadlineReply(c, w) ==
    [c EXCEPT !.wroteHeader = TRUE, !.status = StatusServiceUnavailable,
              !.body = TimedOutText]

\* ------------------------------------------------------ logging
NilErr == [label |-> "nil", text |-> ""]

RequestLine(r) ==
    [src |-> "Request", method |-> r.method, uri |-> RequestURI(r),
     agent |-> "", remote |-> "", label |-> "", text |-> ""]

StackLine ==
    [src |-> "debug.PrintStack", method |-> "", uri |-> <<>>,
     agent |-> "", remote |-> "", label |-> "", text |-> "goroutine stack"]

\* ErrorHandler.HandleError: the log lines one call emits
HandleError(ehPanicHandler, r, err) ==
    IF ehPanicHandler
    THEN << [src |-> "Panic: URI", method |-> "", uri |-> RequestURI(r),
             agent |-> "", remote |-> "", label |-> err.label, text |-> err.text] >>
    ELSE LET agent == IF Len(r.userAgent) > 0 THEN r.userAgent[1] ELSE "Unknown"
         IN  IF err # NilErr
             THEN << [src |-> "Panic: Server Error", method |-> r.method,
                      uri |-> RequestURI(r), agent |-> agent, remote |-> r.remoteAddr,
                      label |-> err.label, text |-> err.text] >>
             ELSE <<>>

\* mutant: the recovered value is printed whatever its type
PanicReasonRaw(v) == v.val

\* the type switch of RecoverHandler on the recovered value, then err.Error()
PanicReason(v) ==
    CASE v.type = "string" -> v.val
      [] v.type = "error"  -> v.val
      [] OTHER             -> "unknown panic"

\* err.Error() in the deferred function panics for an error value whose
\* method cannot run
ErrorTextPanics(v) == v.type = "nilError"

\* mutant: the deferred function does not test what recover() returned
RecoveredAlways(v) == TRUE

\* rr := recover(); rr != nil
Recovered(v) == v # NoPanic

\* the deferred function of RecoverHandler, for a recovered value v
RecoverLogs(r, v) ==
    HandleError(FALSE, r, [label |-> "PANIC: ", text |-> PanicReason(v)])
        \o <<StackLine>>
        \o HandleError(FALSE, r, [label |-> "STACKTRACE: ", text |-> "goroutine stack"])

RecoverRespond(w) ==
    httpError(w, ErrorText, StatusInternalServerError)

\* log.Printf("Request: %s %s %d", uri, method, duration) of RequestMetricsHandler
\* runs after h.ServeHTTP returns, so not while a panic unwinds
MetricsLogs(r, v) == IF v = NoPanic THEN <<RequestLine(r)>> ELSE <<>>

\* ------------------------------------------------------ initial states
NoRequestState ==
    /\ req = NoRequest
    /\ toState = "idle"
    /\ timedOut = FALSE
    /\ ctxDone = FALSE
    /\ doneClosed = FALSE
    /\ panicSent = FALSE
    /\ tw = NewTimeoutWriter
    /\ client = NewClient
    /\ pc = "idle"
    /\ stack = <<>>
    /\ panicking = NoPanic
    /\ raised = NoPanic
    /\ target = None
    /\ hsink = None
    /\ gz = NoGzip
    /\ ops = 0
    /\ hw = <<>>
    /\ hhdr = NoHeaders
    /\ logs = <<>>
    /\ reports = <<>>
    /\ trace = <<>>

\* NewRouter(): an empty route table, nothing started
InitRouter ==
    /\ phase = "setup"
    /\ routerMap = NewRouter
    /\ regs = <<>>
    /\ lateRegs = <<>>
    /\ mux = NoMux
    /\ NoRequestState

\* A server started with one route: router.GET("/a", h1), then Start(cfg)
Init ==
    /\ phase = "serving"
    /\ routerMap = RouterSet(NewRouter, <<"/", "a">>, "h1")
    /\ regs = << [path |-> <<"/", "a">>, controller |-> "h1"] >>
    /\ lateRegs = <<>>
    /\ mux = routes(RouterSet(NewRouter, <<"/", "a">>, "h1"))
    /\ NoRequestState

\* ------------------------------------------------------ Router.GET, Start
GET(path, controller) ==
    /\ phase \in {"setup", "serving"}
    /\ Len(regs) + Len(lateRegs) < MaxRegs
    /\ routerMap' = RouterSet(routerMap, path, controller)
    /\ IF phase = "setup"
       THEN /\ regs' = Append(regs, [path |-> path, controller |-> controller])
            /\ lateRegs' = lateRegs
       ELSE /\ lateRegs' = Append(lateRegs, [path |-> path, controller |-> controller])
            /\ regs' = regs
    /\ UNCHANGED <<phase, mux>>
    /\ UNCHANGED reqVars

\* Start(cfg): handler(cfg) builds the mux from the route table as it is now
Start ==
    /\ phase = "setup"
    /\ IF routesPanics(routerMap)
       THEN phase' = "crashed" /\ mux' = mux
       ELSE phase' = "serving" /\ mux' = routes(routerMap)
    /\ UNCHANGED routerVars
    /\ UNCHANGED reqVars

\* ------------------------------------------------------ server goroutine
\* http.TimeoutHandler.ServeHTTP: make the timeoutWriter, start the goroutine
\* that runs the inner chain, then wait in the select
Accept(r) ==
    /\ phase = "serving"
    /\ toState = "idle"
    /\ Chain[1] = "Timeout"
    /\ req' = r
    /\ toState' = "waiting"
    /\ tw' = NewTimeoutWriter
    /\ pc' = "enter"
    /\ trace' = Append(trace, <<"enter", "Timeout">>)
    /\ UNCHANGED <<phase, mux, timedOut, ctxDone, doneClosed, panicSent, client, stack,
                   panicking, target, hsink, gz, ops, hw, hhdr, logs>>
    /\ UNCHANGED <<raised, reports, routerVars>>

AcceptServe == \E r \in Requests(ServePaths) : Accept(r)
AcceptAny   == \E r \in Requests(ReqPaths) : Accept(r)

\* the context's 4 second timer fires
DeadlineFires ==
    /\ toState = "waiting"
    /\ ~ctxDone
    /\ ctxDone' = TRUE
    /\ UNCHANGED <<phase, mux, req, toState, timedOut, doneClosed, panicSent, tw, client, pc,
                   stack, panicking, target, hsink, gz, ops, hw, hhdr, logs, trace>>
    /\ UNCHANGED <<raised, reports, routerVars>>

\* The select of TimeoutHandler.ServeHTTP: one of the ready cases is taken,
\* whichever when several are ready
TimeoutSelect ==
    /\ toState = "waiting"
    /\ \/ /\ panicSent
          /\ toState' = "panicked"
          /\ UNCHANGED <<client, tw, timedOut>>
       \/ /\ doneClosed
          /\ client' = DoneReply(client, tw)
          /\ toState' = "returned"
          /\ UNCHANGED <<tw, timedOut>>
       \/ /\ ctxDone
          /\ client' = DeadlineReply(client, tw)
          /\ tw' = [tw EXCEPT !.err = TRUE]
          /\ timedOut' = TRUE
          /\ toState' = "returned"
    /\ trace' = Append(trace, <<"exit", "Timeout">>)
    /\ UNCHANGED <<phase, mux, req, ctxDone, doneClosed, panicSent, pc, stack, panicking,
                   target, hsink, gz, ops, hw, hhdr, logs>>
    /\ UNCHANGED <<raised, reports, routerVars>>

\* ------------------------------------------------------ spawned goroutine
Enter(wrapper) ==
    /\ pc = "enter"
    /\ NextWrapper = wrapper
    /\ stack' = Append(stack, wrapper)
    /\ trace' = Append(trace, <<"enter", wrapper>>)

Exit(wrapper) ==
    /\ pc = "unwind"
    /\ Top = wrapper
    /\ stack' = Front(stack)
    /\ trace' = Append(trace, <<"exit", wrapper>>)

RecoverEnter ==
    /\ Enter("Recovery")
    /\ UNCHANGED <<phase, mux, req, toState, timedOut, ctxDone, doneClosed, panicSent, tw,
                   client, pc, panicking, target, hsink, gz, ops, hw, hhdr, logs>>
    /\ UNCHANGED <<raised, reports, routerVars>>

MetricsEnter ==
    /\ Enter("Metrics")
    /\ UNCHANGED <<phase, mux, req, toState, timedOut, ctxDone, doneClosed, panicSent, tw,
                   client, pc, panicking, target, hsink, gz, ops, hw, hhdr, logs>>
    /\ UNCHANGED <<raised, reports, routerVars>>

\* GZipHandler up to its call of h.ServeHTTP
GZipEnter ==
    /\ Enter("Compression")
    /\ IF AcceptsGzip(req)
       THEN /\ tw' = gzipSetEncoding(tw)
            /\ gz' = NewGzipWriter
            /\ hsink' = "gz"
       ELSE /\ hsink' = "raw"
            /\ UNCHANGED <<tw, gz>>
    /\ UNCHANGED <<phase, mux, req, toState, timedOut, ctxDone, doneClosed, panicSent,
                   client, pc, panicking, target, ops, hw, hhdr, logs>>
    /\ UNCHANGED <<raised, reports, routerVars>>

\* mutant: the lookup goes to a mux rebuilt from the Router's map as it is now
DispatchTableLive == routes(routerMap)

\* the *http.ServeMux that handler(cfg) put at the end of the chain
DispatchTable == mux

\* ServeMux.ServeHTTP: pick the handler for the request's path
Dispatch ==
    /\ Enter("Router")
    /\ target' = MuxTarget(DispatchTable, req.path)
    /\ pc' = "handler"
    /\ UNCHANGED <<phase, mux, req, toState, timedOut, ctxDone, doneClosed, panicSent, tw,
                   client, panicking, hsink, gz, ops, hw, hhdr, logs>>
    /\ UNCHANGED <<raised, reports, routerVars>>

\* ------------------------------------------------------ handlers
AppTargets == Controllers \cup {"FileServer"}

HandlerCodes == {StatusNotFound}

\* w.Write(bs) by the handler, starting from sink state w0: through the
\* compressor when GZipHandler installed the gzipResponseWriter, else raw
SinkWrite(w0, bs) ==
    /\ hw' = hw \o bs
    /\ IF hsink = "gz" /\ gzipResponseWriterWrite = "Writer"
       THEN \E flush \in BOOLEAN :
               /\ tw' = IF gzWriteOut(gz, bs, flush) # <<>>
                        THEN twWrite(w0, gzWriteOut(gz, bs, flush)) ELSE w0
               /\ gz' = gzWriteState(gz, bs, flush)
       ELSE /\ tw' = twWrite(w0, bs)
            /\ gz' = gz

HandlerWrite(b) ==
    /\ pc = "handler"
    /\ target \in AppTargets
    /\ ops < MaxOps
    /\ SinkWrite(tw, <<b>>)
    /\ ops' = ops + 1
    /\ UNCHANGED <<phase, mux, req, toState, timedOut, ctxDone, doneClosed, panicSent,
                   client, pc, stack, panicking, target, hsink, hhdr, logs, trace>>
    /\ UNCHANGED <<raised, reports, routerVars>>

\* w.WriteHeader(code): gzipResponseWriter passes it to the embedded ResponseWriter
HandlerWriteHeader(c) ==
    /\ pc = "handler"
    /\ target \in AppTargets
    /\ ops < MaxOps
    /\ tw' = twWriteHeader(tw, c)
    /\ ops' = ops + 1
    /\ UNCHANGED <<phase, mux, req, toState, timedOut, ctxDone, doneClosed, panicSent,
                   client, pc, stack, panicking, target, hsink, gz, hw, hhdr, logs, trace>>
    /\ UNCHANGED <<raised, reports, routerVars>>

\* w.Header().Set("Content-Type", "text/html"), as Render does
HandlerSetHeader ==
    /\ pc = "handler"
    /\ target \in AppTargets
    /\ ops < MaxOps
    /\ tw' = twSetHeader(tw, "Content-Type", "text/html")
    /\ hhdr' = [hhdr EXCEPT !["Content-Type"] = "text/html"]
    /\ ops' = ops + 1
    /\ UNCHANGED <<phase, mux, req, toState, timedOut, ctxDone, doneClosed, panicSent,
                   client, pc, stack, panicking, target, hsink, gz, hw, logs, trace>>
    /\ UNCHANGED <<raised, reports, routerVars>>

\* the controller reports an error of its own: ErrorHandler{...}.HandleError(r, err)
ReportErrs == {NilErr, [label |-> "", text |-> "db down"]}

HandlerReport(ehPanicHandler, err) ==
    /\ pc = "handler"
    /\ target \in Controllers
    /\ Len(reports) < MaxReports
    /\ reports' = Append(reports, [panicHandler |-> ehPanicHandler, err |-> err])
    /\ logs' = logs \o HandleError(ehPanicHandler, req, err)
    /\ UNCHANGED <<phase, mux, req, toState, timedOut, ctxDone, doneClosed, panicSent, tw,
                   client, pc, stack, panicking, raised, target, hsink, gz, ops, hw, hhdr,
                   trace>>
    /\ UNCHANGED routerVars

\* the controller panics with value v
HandlerPanic(v) ==
    /\ pc = "handler"
    /\ target \in Controllers
    /\ panicking' = v
    /\ raised' = v
    /\ pc' = "unwind"
    /\ UNCHANGED <<phase, mux, req, toState, timedOut, ctxDone, doneClosed, panicSent, tw,
                   client, stack, target, hsink, gz, ops, hw, hhdr, logs, trace>>
    /\ UNCHANGED <<reports, routerVars>>

HandlerReturn ==
    /\ pc = "handler"
    /\ target \in AppTargets
    /\ pc' = "unwind"
    /\ UNCHANGED <<phase, mux, req, toState, timedOut, ctxDone, doneClosed, panicSent, tw,
                   client, stack, panicking, target, hsink, gz, ops, hw, hhdr, logs, trace>>
    /\ UNCHANGED <<raised, reports, routerVars>>

\* the handlers the ServeMux supplies itself: http.NotFound, http.Redirect
BuiltinRespond ==
    /\ pc = "handler"
    /\ target \in {"NotFound", "Redirect"}
    /\ IF target = "NotFound"
       THEN LET w1 == twSetHeader(tw, "Content-Type", "text/plain; charset=utf-8")
                w2 == twSetHeader(w1, "X-Content-Type-Options", "nosniff")
            IN  SinkWrite(twWriteHeader(w2, StatusNotFound), NotFoundText)
       ELSE LET w1 == twSetHeader(tw, "Location", "path/")
            IN  IF req.method = "GET"
                THEN SinkWrite(twWriteHeader(
                        twSetHeader(w1, "Content-Type", "text/html; charset=utf-8"),
                        StatusMovedPermanently), RedirectText)
                ELSE /\ tw' = twWriteHeader(w1, StatusMovedPermanently)
                     /\ UNCHANGED <<gz, hw>>
    /\ pc' = "unwind"
    /\ UNCHANGED <<phase, mux, req, toState, timedOut, ctxDone, doneClosed, panicSent,
                   client, stack, panicking, target, hsink, ops, hhdr, logs, trace>>
    /\ UNCHANGED <<raised, reports, routerVars>>

\* ------------------------------------------------------ returning, unwinding
RouterExit ==
    /\ Exit("Router")
    /\ UNCHANGED <<phase, mux, req, toState, timedOut, ctxDone, doneClosed, panicSent, tw,
                   client, pc, panicking, target, hsink, gz, ops, hw, hhdr, logs>>
    /\ UNCHANGED <<raised, reports, routerVars>>

\* GZipHandler after h.ServeHTTP: the deferred gz.Close() runs on return and
\* while a panic unwinds
GZipExit ==
    /\ Exit("Compression")
    /\ IF gz.active /\ gzipCloseRuns(panicking)
       THEN /\ tw' = twWrite(tw, gzCloseOut(gz))
            /\ gz' = gzCloseState(gz)
       ELSE UNCHANGED <<tw, gz>>
    /\ UNCHANGED <<phase, mux, req, toState, timedOut, ctxDone, doneClosed, panicSent,
                   client, pc, panicking, target, hsink, ops, hw, hhdr, logs>>
    /\ UNCHANGED <<raised, reports, routerVars>>

\* RequestMetricsHandler after h.ServeHTTP
MetricsExit ==
    /\ Exit("Metrics")
    /\ logs' = logs \o MetricsLogs(req, panicking)
    /\ UNCHANGED <<phase, mux, req, toState, timedOut, ctxDone, doneClosed, panicSent, tw,
                   client, pc, panicking, target, hsink, gz, ops, hw, hhdr>>
    /\ UNCHANGED <<raised, reports, routerVars>>

\* RecoverHandler after next.ServeHTTP: the deferred function recovers a
\* panic, reports it twice and answers with http.Error; a panic raised inside
\* the deferred function itself leaves it at once and goes on unwinding
RecoverExit ==
    /\ Exit("Recovery")
    /\ IF Recovered(panicking)
       THEN IF ErrorTextPanics(panicking)
            THEN /\ panicking' = RuntimePanic
                 /\ UNCHANGED <<logs, tw>>
            ELSE /\ logs' = logs \o RecoverLogs(req, panicking)
                 /\ tw' = RecoverRespond(tw)
                 /\ panicking' = NoPanic
       ELSE UNCHANGED <<logs, tw, panicking>>
    /\ UNCHANGED <<phase, mux, req, toState, timedOut, ctxDone, doneClosed, panicSent,
                   client, pc, target, hsink, gz, ops, hw, hhdr>>
    /\ UNCHANGED <<raised, reports, routerVars>>

\* the goroutine started by TimeoutHandler ends: close(done), or the panic
\* that reached it goes to panicChan
GoroutineEnd ==
    /\ pc = "unwind"
    /\ stack = <<>>
    /\ pc' = "end"
    /\ IF panicking # NoPanic
       THEN panicSent' = TRUE /\ doneClosed' = doneClosed
       ELSE doneClosed' = TRUE /\ panicSent' = panicSent
    /\ UNCHANGED <<phase, mux, req, toState, timedOut, ctxDone, tw, client, stack,
                   panicking, target, hsink, gz, ops, hw, hhdr, logs, trace>>
    /\ UNCHANGED <<raised, reports, routerVars>>

\* ------------------------------------------------------ specifications
Serve ==
    \/ DeadlineFires
    \/ TimeoutSelect
    \/ RecoverEnter
    \/ MetricsEnter
    \/ GZipEnter
    \/ Dispatch
    \/ \E b \in AppBytes : HandlerWrite(b)
    \/ \E c \in HandlerCodes : HandlerWriteHeader(c)
    \/ HandlerSetHeader
    \/ \E v \in PanicValues : HandlerPanic(v)
    \/ HandlerReturn
    \/ BuiltinRespond
    \/ RouterExit
    \/ GZipExit
    \/ MetricsExit
    \/ RecoverExit
    \/ GoroutineEnd

\* one request against a started server
Next == AcceptServe \/ Serve

Spec == Init /\ [][Next]_vars

\* registrations, Start, and one request up to the dispatch of its handler
NextRouter ==
    \/ \E p \in RegPaths, c \in Controllers : GET(p, c)
    \/ Start
    \/ AcceptAny
    \/ RecoverEnter
    \/ MetricsEnter
    \/ GZipEnter
    \/ Dispatch

SpecRouter == InitRouter /\ [][NextRouter]_vars

\* one request against a started server, whose controller calls the Error
\* Reporter with every kind of input
NextReporter ==
    \/ AcceptServe
    \/ RecoverEnter
    \/ MetricsEnter
    \/ GZipEnter
    \/ Dispatch
    \/ \E ph \in BOOLEAN, e \in ReportErrs : HandlerReport(ph, e)

SpecReporter == Init /\ [][NextReporter]_vars

\* ====================================================== properties
ExpectedOrder == <<"Timeout", "Recovery", "Metrics", "Compression", "Router">>

\* the request declared gzip support in Accept-Encoding
GzipDeclared == req.acceptEncoding = "gzip, deflate"

\* the server goroutine has sent its reply to the client
Replied == toState = "returned"

\* the request is over in both goroutines
Finished == Replied /\ pc = "end"

\* the Recovery wrapper has not (yet) written an error response of its own
NoErrorResponse == raised = NoPanic \/ panicking # NoPanic

EnteredNames(t) ==
    LET e == SelectSeq(t, LAMBDA x : x[1] = "enter")
    IN  [i \in 1..Len(e) |-> e[i][2]]

WithoutTimeout(t) == SelectSeq(t, LAMBDA x : x[2] # "Timeout")

\* every exit in t closes the most recently entered wrapper still open
RECURSIVE NestedFrom(_, _)
NestedFrom(t, open) ==
    IF t = <<>> THEN TRUE
    ELSE IF t[1][1] = "enter" THEN NestedFrom(Tail(t), Append(open, t[1][2]))
    ELSE /\ open # <<>>
         /\ Last(open) = t[1][2]
         /\ NestedFrom(Tail(t), Front(open))

Nested(t) == NestedFrom(t, <<>>)

LinesWhere(P(_)) == Cardinality({i \in DOMAIN logs : P(logs[i])})

\* ------------------------------------------------------------------ C1
\* C1 as stated: in every execution the wrappers are entered in the order
\* Timeout, Recovery, Metrics, Compression, Router and exited in exactly the
\* reverse order, strictly nested, also when the deadline expires.
C1_StrictlyNestedAlways ==
    /\ IsPrefix(EnteredNames(trace), ExpectedOrder)
    /\ Nested(trace)

\* C1 amended: the wrappers are entered in the order Timeout, Recovery,
\* Metrics, Compression, Router; Recovery, Metrics, Compression and Router
\* are exited strictly nested in every execution (handler faults included);
\* the Timeout wrapper is exited after all of them unless its deadline case
\* was taken, and a finished request has entered and left all five.
C1_NestedUnlessDeadline ==
    /\ IsPrefix(EnteredNames(trace), ExpectedOrder)
    /\ Nested(WithoutTimeout(trace))
    /\ (~timedOut => Nested(trace))
    /\ (Finished => Len(trace) = 2 * Len(ExpectedOrder))

C1_Witness ==
    /\ Finished
    /\ timedOut
    /\ raised # NoPanic
    /\ Len(trace) = 2 * Len(ExpectedOrder)
    /\ ~Nested(trace)

\* ------------------------------------------------------------------ C2
\* C2: a request whose handler panicked (string, error or other value) and
\* whose deadline did not expire is answered with status 500, a body without
\* stack trace content, and exactly one PANIC and one STACKTRACE diagnostic
\* reported through the Error Reporter.
C2_PanicGives500AndTwoDiagnostics ==
    (Replied /\ raised # NoPanic /\ ~ctxDone) =>
        /\ client.status = StatusInternalServerError
        /\ \A i \in DOMAIN client.body : client.body[i] # "goroutine stack"
        /\ LinesWhere(LAMBDA l : l.src = "Panic: Server Error" /\ l.label = "PANIC: ") = 1
        /\ LinesWhere(LAMBDA l : l.src = "Panic: Server Error" /\ l.label = "STACKTRACE: ") = 1

\* ------------------------------------------------------------------ C3
\* C3: every request whose handler panics, and whose deadline does not
\* expire, yields status 500, whatever the handler wrote before and whether
\* or not the request declared gzip.
C3_PanicAlwaysStatus500 ==
    (Replied /\ raised # NoPanic /\ ~ctxDone) => client.status = StatusInternalServerError

\* ------------------------------------------------------------------ C4
\* C4: when the handler panics (and the deadline does not expire) the body the
\* client receives is only the fixed error text: no byte the handler wrote,
\* no byte of the compressor.
C4_PanicBodyIsOnlyErrorText ==
    (Replied /\ raised # NoPanic /\ ~ctxDone) => client.body = ErrorText

\* ------------------------------------------------------------------ C5
\* C5: for a request that declared gzip, once the Compression wrapper has
\* closed the compressor (and the sink has not refused writes after a
\* deadline, nor the Recovery wrapper added its own text) the bytes in the
\* sink decompress to exactly the bytes the handler wrote; no byte reaches the
\* sink uncompressed; Content-Encoding: gzip is set; and a reply delivered to
\* the client carries that header and decompresses to the handler's bytes.
FramedBytes == CompressedBytes \cup {GzHeader, GzTrailer}

C5_GzipRoundTrip ==
    (GzipDeclared /\ hsink # None) =>
        /\ hsink = "gz"
        /\ tw.h["Content-Encoding"] = "gzip"
        /\ NoErrorResponse => \A i \in DOMAIN tw.wbuf : tw.wbuf[i] \in FramedBytes
        /\ (gz.closed /\ ~tw.err /\ NoErrorResponse) =>
              /\ Gunzip(tw.wbuf).ok
              /\ Gunzip(tw.wbuf).data = hw
        /\ (Replied /\ ~timedOut /\ raised = NoPanic) =>
              /\ client.header["Content-Encoding"] = "gzip"
              /\ Gunzip(client.body).ok
              /\ Gunzip(client.body).data = hw

C5_Witness ==
    /\ GzipDeclared
    /\ Replied
    /\ ~timedOut
    /\ raised = NoPanic
    /\ target \in Controllers
    /\ Len(hw) >= 2
    /\ hw[1] # hw[2]
    /\ Gunzip(client.body).data = hw

\* ------------------------------------------------------------------ C6
\* C6: for a request that did not declare gzip the Compression wrapper hands
\* the handler the original sink: no compressor is installed, the wrapper
\* sets no Content-Encoding, and (until the sink refuses writes after a
\* deadline or the Recovery wrapper adds its text) the sink holds exactly the
\* bytes the handler wrote and, for an application handler, exactly the
\* headers it set.
C6_PassThrough ==
    (~GzipDeclared /\ hsink # None) =>
        /\ hsink = "raw"
        /\ gz = NoGzip
        /\ tw.h["Content-Encoding"] = None
        /\ (~tw.err /\ NoErrorResponse) =>
              /\ tw.wbuf = hw
              /\ target \in AppTargets => tw.h = hhdr
        /\ (Replied /\ ~timedOut /\ raised = NoPanic) =>
              /\ client.body = hw
              /\ client.header["Content-Encoding"] = None

C6_Witness ==
    /\ ~GzipDeclared
    /\ Replied
    /\ ~timedOut
    /\ raised = NoPanic
    /\ target \in Controllers
    /\ Len(hw) >= 1
    /\ hhdr["Content-Type"] # None
    /\ client.body = hw

\* ------------------------------------------------------------------ C7
\* C7: once the Timeout wrapper has taken its deadline case the reply is 503
\* with exactly the fixed body "timed out", and stays so: nothing the handler
\* wrote before the deadline or writes after it is in the client's reply.
C7_TimeoutBodyOnly ==
    timedOut =>
        /\ client.status = StatusServiceUnavailable
        /\ client.body = TimedOutText
        /\ \A i \in DOMAIN client.body : client.body[i] \notin AppBytes \cup FramedBytes

C7_Witness ==
    /\ timedOut
    /\ pc = "end"
    /\ ~GzipDeclared
    /\ Len(tw.wbuf) = 1
    /\ Len(hw) = 2
    /\ client.body = TimedOutText

\* ------------------------------------------------------------------ C8
\* C8: every completed request that did not time out, also one whose
\* handler panicked and was recovered, has exactly one Metrics log line, with
\* the request's method and URI.
C8_OneMetricsLinePerRequest ==
    (Replied /\ ~timedOut) =>
        /\ LinesWhere(LAMBDA l : l.src = "Request") = 1
        /\ LinesWhere(LAMBDA l : l.src = "Request" /\ l.method = req.method
                                 /\ l.uri = RequestURI(req)) = 1

\* ------------------------------------------------------------------ C9
\* C9: when a request's path P was registered before Start, the dispatch
\* invokes the controller of the last registration of P; an earlier one is
\* never invoked.
RegsOf(p) == SelectSeq(regs, LAMBDA g : g.path = p)

C9_LastRegistrationWins ==
    (target # None /\ RegsOf(req.path) # <<>>) =>
        target = Last(RegsOf(req.path)).controller

C9_Witness ==
    /\ target # None
    /\ Len(RegsOf(req.path)) >= 2
    /\ RegsOf(req.path)[1].controller # Last(RegsOf(req.path)).controller
    /\ target = Last(RegsOf(req.path)).controller

\* ------------------------------------------------------------------ C10
\* C10: when compression is applied, every step that adds bytes to the sink
\* starts in a state where Content-Encoding: gzip is already set.
C10_EncodingHeaderBeforeBody ==
    [][(hsink = "gz" /\ Len(tw'.wbuf) > Len(tw.wbuf))
          => tw.h["Content-Encoding"] = "gzip"]_vars

C10_Witness ==
    /\ hsink = "gz"
    /\ raised # NoPanic
    /\ hw = <<>>
    /\ tw.wbuf = <<GzHeader, GzTrailer>> \o ErrorText
    /\ tw.h["Content-Encoding"] = "gzip"

\* ------------------------------------------------------------------ C11
\* C11: when compression is applied the compressor is closed exactly once by
\* the time the Compression wrapper has returned control, on a normal return
\* and on a panic alike, never before; and when the Recovery wrapper has
\* written its response the compressor is already closed.
Exited(wrapper) == \E i \in DOMAIN trace : trace[i] = <<"exit", wrapper>>

RecoveryResponded == raised # NoPanic /\ panicking = NoPanic

C11_FinalizedOnceOnEveryExit ==
    hsink = "gz" =>
        /\ Exited("Compression") => (gz.closed /\ gz.closes = 1)
        /\ ~Exited("Compression") => (~gz.closed /\ gz.closes = 0)
        /\ RecoveryResponded => (gz.closed /\ gz.closes = 1)

C11_Witness ==
    /\ hsink = "gz"
    /\ Finished
    /\ RecoveryResponded
    /\ gz.closes = 1
    /\ Len(hw) >= 1

\* ------------------------------------------------------------------ C12
\* C12: if reporting fails (panics) while the Recovery wrapper handles a
\* fault, the write of the 500 response is still attempted (http.Error has
\* set its headers on the sink) and the client is sent a response.
ReportingFaulted == raised # NoPanic /\ Exited("Recovery") /\ panicking # NoPanic

ResponseAttempted == tw.h["X-Content-Type-Options"] = "nosniff"

C12_ResponseAttemptedDespiteReportFailure ==
    /\ ReportingFaulted => ResponseAttempted
    /\ (ReportingFaulted /\ toState \in {"returned", "panicked"}) => client.wroteHeader

\* ------------------------------------------------------------------ C13
\* C13: every fault raised in the pipeline is intercepted by the Recovery
\* wrapper: no panic reaches the goroutine started by the Timeout wrapper,
\* none is raised again in the server goroutine towards the transport layer.
C13_NoFaultEscapes ==
    /\ ~panicSent
    /\ toState # "panicked"
    /\ (pc = "end" => panicking = NoPanic)

\* ------------------------------------------------------------------ C14
\* C14: the dispatch invokes a registered controller only for a request whose
\* path equals a registered path; a request whose path equals no registered
\* path (and is not under the static mount /css/) gets the not-found handler.
C14_ExactMatchOnly ==
    target # None =>
        /\ target \in Controllers => RegsOf(req.path) # <<>>
        /\ (RegsOf(req.path) = <<>> /\ ~IsPrefix(CssPattern, req.path)) => target = "NotFound"

\* ------------------------------------------------------------------ C15
ReporterSources == {"Panic: Server Error", "Panic: URI"}

FaultLines == LinesWhere(LAMBDA l : l.src \in ReporterSources \/ l.src = "debug.PrintStack")

\* C15 as stated: for a request that timed out no stack trace is captured and
\* the Error Reporter is never invoked, also when the handler goes on after
\* the deadline and then panics.
C15_TimeoutNeverReports ==
    timedOut => FaultLines = 0

\* C15 amended: a timeout by itself is not treated as a fault: for a request
\* that timed out and whose handler did not panic, no stack trace is captured
\* and the Error Reporter is not invoked; a handler that panics, before or
\* after the deadline, is still reported once by the Recovery wrapper.
C15_TimeoutAloneNotReported ==
    /\ (timedOut /\ raised = NoPanic) => FaultLines = 0
    /\ (timedOut /\ RecoveryResponded) =>
          /\ LinesWhere(LAMBDA l : l.src \in ReporterSources) = 2
          /\ LinesWhere(LAMBDA l : l.src = "debug.PrintStack") = 1

C15_Witness ==
    /\ timedOut
    /\ Finished
    /\ raised = NoPanic
    /\ ~GzipDeclared
    /\ Len(tw.wbuf) < Len(hw)
    /\ FaultLines = 0
    /\ Len(logs) = 1

\* ------------------------------------------------------------------ C17
\* C17: the PANIC diagnostic reads "PANIC: " followed by the string the
\* handler panicked with, by the text of the error it panicked with, or by
\* "unknown panic" for a value of another type; a recovered fault has one.
ExpectedReason ==
    CASE raised.type = "string" -> raised.val
      [] raised.type = "error"  -> raised.val
      [] OTHER                  -> "unknown panic"

C17_PanicMessage ==
    /\ \A i \in DOMAIN logs :
          logs[i].label = "PANIC: " =>
              /\ logs[i].src = "Panic: Server Error"
              /\ logs[i].text = ExpectedReason
    /\ RecoveryResponded => \E i \in DOMAIN logs : logs[i].label = "PANIC: "

C17_Witness ==
    /\ RecoveryResponded
    /\ raised.type = "other"
    /\ \E i \in DOMAIN logs : logs[i].label = "PANIC: " /\ logs[i].text = "unknown panic"

\* ------------------------------------------------------------------ C16
\* C16: every call of the Error Reporter emits exactly one log record,
\* whatever its inputs (error present or absent, panic labelling on or off),
\* and the record carries the request's method, its user agent (the first
\* User-Agent value, else "Unknown"), its remote address and its path.
ExpectedAgent == IF Len(req.userAgent) > 0 THEN req.userAgent[1] ELSE "Unknown"

C16_OneRecordPerReport ==
    /\ LinesWhere(LAMBDA l : l.src \in ReporterSources) = Len(reports)
    /\ \A i \in DOMAIN logs :
          logs[i].src \in ReporterSources =>
              /\ logs[i].method = req.method
              /\ logs[i].agent = ExpectedAgent
              /\ logs[i].remote = req.remoteAddr
              /\ logs[i].uri = req.path

\* ------------------------------------------------------------------ C19
\* C19: the mux used for dispatch is the one built at Start from the
\* registrations made until then: a Router.GET made while serving changes the
\* Router's map only, and for every path the handler the dispatch picks is
\* the one the table at Start gives.
RECURSIVE TableOf(_)
TableOf(gs) ==
    IF gs = <<>> THEN [p \in RegPaths |-> None]
    ELSE [TableOf(Front(gs)) EXCEPT ![Last(gs).path] = Last(gs).controller]

C19_RouteTableFixedAtStart ==
    phase = "serving" =>
        /\ \A p \in ReqPaths : MuxTarget(mux, p) = MuxTarget(routes(TableOf(regs)), p)
        /\ target # None => target = MuxTarget(routes(TableOf(regs)), req.path)
        /\ routerMap = TableOf(regs \o lateRegs)

C19_Witness ==
    /\ target \in Controllers
    /\ lateRegs # <<>>
    /\ lateRegs[1].path = req.path
    /\ lateRegs[1].controller # target
    /\ routerMap[req.path] = lateRegs[1].controller
    /\ trace[Len(trace)] = <<"enter", "Router">>

====
